---- MODULE Spec2Model ----
(***************************************************************************)
(* Solar Monitor (src/App.tsx): the App component's state, its data        *)
(* loading loop (loadData), the analysis engine (analyzeData), the flare   *)
(* peak detector and the values the render derives from the state.         *)
(*                                                                         *)
(* Units.  X-ray flux is counted in 1e-9 W/m^2, so 1e-8 is 10, 1e-7 is     *)
(* 100, 1e-6 is 1000, 1e-5 is 10000 and 1e-4 is 100000.  Wind speed is in  *)
(* km/s, proton flux in pfu, Kp in index units, density in 0.01 p/cm^3,    *)
(* time in minutes.  An average is kept exact, as the pair [num, den].     *)
(* A piece of report text is a token [t, n]: the phrase and the number     *)
(* interpolated into it (0 when there is none).                            *)
(***************************************************************************)
EXTENDS Integers, Sequences, FiniteSets, Bags, TLC

VARIABLES kpData, windData, flareData, forecastData, protonData,
          detectedFlares, loading, fetchError, report, dangerIndex,
          hidden, mounted, pending, call, auroraMap

vars == <<kpData, windData, flareData, forecastData, protonData,
          detectedFlares, loading, fetchError, report, dangerIndex,
          hidden, mounted, pending, call, auroraMap>>

(***************************************************************************)
(* Bounds of the model.                                                    *)
(***************************************************************************)
MaxKp == 2
MaxWind == 7
MaxProton == 6
MaxFlareAvg == 13
MaxPeakLen == 5
MaxTies == 1
MaxPending == 2
MaxAvgLen == 3
MaxCount == 4
MaxTrendKp == 3
MaxTrendWind == 13
MaxForecast == 3
MaxTotalLen == 2
RandRes == 3

(***************************************************************************)
(* Arithmetic helpers.                                                     *)
(***************************************************************************)
Rat(n, d) == [num |-> n, den |-> d]

\* r >= k and r < k for an exact average r and an integer k
GE(r, k) == r.num >= k * r.den
LT(r, k) == r.num < k * r.den

\* a / b rounded to the nearest integer, halves up (a >= 0, b > 0)
RoundDiv(a, b) == (2 * a + b) \div (2 * b)

Const(n, x) == [i \in 1..n |-> x]

Tok(s) == [t |-> s, n |-> 0]
Num(s, k) == [t |-> s, n |-> k]

(***************************************************************************)
(* getAverage: the mean of the last `count` items' `key` field.            *)
(***************************************************************************)
\* data.slice(-count)
sliceLast(data, count) ==
    IF count >= Len(data) THEN data
    ELSE SubSeq(data, Len(data) - count + 1, Len(data))

\* data.slice(0, -count)
sliceBefore(data, count) ==
    IF count >= Len(data) THEN << >>
    ELSE SubSeq(data, 1, Len(data) - count)

RECURSIVE reduceSum(_, _)
reduceSum(slice, key) ==
    IF slice = << >> THEN 0
    ELSE reduceSum(SubSeq(slice, 1, Len(slice) - 1), key) + slice[Len(slice)][key]

\* the sum divided by count instead of by the number of items averaged
getAverage_byCount(data, key, count) ==
    IF Len(data) = 0 THEN Rat(0, 1)
    ELSE LET slice == sliceLast(data, count)
         IN Rat(reduceSum(slice, key), count)

getAverage(data, key, count) ==
    IF Len(data) = 0 THEN Rat(0, 1)
    ELSE LET slice == sliceLast(data, count)
         IN Rat(reduceSum(slice, key), Len(slice))

(***************************************************************************)
(* getFlareClass (services/noaaService): the class letter by decade of     *)
(* flux and the mantissa flux / 10^decade to one decimal, kept in tenths.  *)
(***************************************************************************)
getFlareClass(flux) ==
    IF LT(flux, 100) THEN [letter |-> "A", tenths |-> RoundDiv(10 * flux.num, 10 * flux.den)]
    ELSE IF LT(flux, 1000) THEN [letter |-> "B", tenths |-> RoundDiv(10 * flux.num, 100 * flux.den)]
    ELSE IF LT(flux, 10000) THEN [letter |-> "C", tenths |-> RoundDiv(10 * flux.num, 1000 * flux.den)]
    ELSE IF LT(flux, 100000) THEN [letter |-> "M", tenths |-> RoundDiv(10 * flux.num, 10000 * flux.den)]
    ELSE [letter |-> "X", tenths |-> RoundDiv(10 * flux.num, 100000 * flux.den)]

(***************************************************************************)
(* pick: one of the options, by a draw r / RandRes of Math.random().       *)
(***************************************************************************)
pick(options, r) == options[((r * Len(options)) \div RandRes) + 1]

(***************************************************************************)
(* analyzeData, part 1: the data snapshots.                                *)
(***************************************************************************)
\* kp[kp.length - 1]?.kp || 0
\* a missing last sample read as Kp 3
lastKpOf_unsettled(kp) == IF Len(kp) >= 1 THEN kp[Len(kp)].kp ELSE 3

lastKpOf(kp) == IF Len(kp) >= 1 THEN kp[Len(kp)].kp ELSE 0

\* kp[kp.length - 2]?.kp || lastKp
prevKpOf(kp) ==
    IF Len(kp) >= 2 /\ kp[Len(kp) - 1].kp # 0 THEN kp[Len(kp) - 1].kp
    ELSE lastKpOf(kp)

avgWindOf(wind) == getAverage(wind, "speed", 6)

\* getAverage(wind.slice(0, -6), 'speed', 6) || avgWind
prevWindOf(wind) ==
    LET prev == getAverage(sliceBefore(wind, 6), "speed", 6)
    IN IF prev.num = 0 THEN avgWindOf(wind) ELSE prev

avgFluxOf(flares) == getAverage(flares, "flux", 12)
avgProtonOf(protons) == getAverage(protons, "flux", 6)
avgFlareClassOf(flares) == getFlareClass(avgFluxOf(flares))

\* the first forecast entry read instead of the second
nextForecastKpOf_first(forecast, kp) ==
    IF Len(forecast) > 1 THEN forecast[1].kp ELSE lastKpOf(kp)

\* forecast.length > 1 ? forecast[1].kp : lastKp, the array counted from 0
nextForecastKpOf(forecast, kp) ==
    IF Len(forecast) > 1 THEN forecast[2].kp ELSE lastKpOf(kp)

(***************************************************************************)
(* analyzeData, part 2: the danger score and its label.                    *)
(***************************************************************************)
\* the tiers of Kp 4 and Kp 5 exchanged
KpContribution_swapped(lastKp) ==
    IF lastKp >= 7 THEN 4
    ELSE IF lastKp >= 5 THEN 2
    ELSE IF lastKp >= 4 THEN 3
    ELSE IF lastKp >= 3 THEN 1
    ELSE 0

KpContribution(lastKp) ==
    IF lastKp >= 7 THEN 4
    ELSE IF lastKp >= 5 THEN 3
    ELSE IF lastKp >= 4 THEN 2
    ELSE IF lastKp >= 3 THEN 1
    ELSE 0

\* the 500 km/s tier taken strictly
WindContribution_strict(avgWind) ==
    IF GE(avgWind, 700) THEN 3
    ELSE IF ~LT(avgWind, 500) /\ avgWind.num # 500 * avgWind.den THEN 2
    ELSE IF GE(avgWind, 400) THEN 1
    ELSE 0

WindContribution(avgWind) ==
    IF GE(avgWind, 700) THEN 3
    ELSE IF GE(avgWind, 500) THEN 2
    ELSE IF GE(avgWind, 400) THEN 1
    ELSE 0

\* includes('X'); includes('M') with val = parseFloat(class.replace('M', ''))
FlareContribution(avgFlareClass) ==
    IF avgFlareClass.letter = "X" THEN 3
    ELSE IF avgFlareClass.letter = "M"
         THEN IF avgFlareClass.tenths >= 50 THEN 2 ELSE 1
    ELSE 0

DangerScore(lastKp, avgWind, avgFlareClass) ==
    KpContribution(lastKp) + WindContribution(avgWind) + FlareContribution(avgFlareClass)

\* the HIGH cutoff taken strictly
DangerLabel_strict(score) ==
    IF score > 5 THEN [score |-> score, label |-> "HIGH", colorClass |-> "text-[#ff1744]"]
    ELSE IF score >= 3 THEN [score |-> score, label |-> "MODERATE", colorClass |-> "text-[#ffca28]"]
    ELSE [score |-> score, label |-> "BACKGROUND", colorClass |-> "text-[#00e676]"]

\* the label left at its initial value below the MODERATE cutoff
DangerLabel_noBackground(score) ==
    IF score >= 5 THEN [score |-> score, label |-> "HIGH", colorClass |-> "text-[#ff1744]"]
    ELSE IF score >= 3 THEN [score |-> score, label |-> "MODERATE", colorClass |-> "text-[#ffca28]"]
    ELSE [score |-> score, label |-> "LOADING", colorClass |-> "text-gray-500"]

\* 'ФОНОВЫЙ' is BACKGROUND, 'УМЕРЕННЫЙ' is MODERATE, 'ВЫСОКИЙ' is HIGH
DangerLabel(score) ==
    IF score >= 5 THEN [score |-> score, label |-> "HIGH", colorClass |-> "text-[#ff1744]"]
    ELSE IF score >= 3 THEN [score |-> score, label |-> "MODERATE", colorClass |-> "text-[#ffca28]"]
    ELSE [score |-> score, label |-> "BACKGROUND", colorClass |-> "text-[#00e676]"]

(***************************************************************************)
(* analyzeData, part 3: the four sections of the report.                   *)
(***************************************************************************)
trendDescOf(lastKp, prevKp) ==
    IF lastKp - prevKp > 0 THEN Tok("trend: rising")
    ELSE IF lastKp - prevKp < 0 THEN Tok("trend: falling")
    ELSE Tok("trend: stable")

statusTextOf(lastKp, prevKp, r) ==
    LET trendDesc == trendDescOf(lastKp, prevKp) IN
    IF lastKp >= 7 THEN
        << Tok("STATUS: strong storm G3"),
           pick(<< Tok("threshold far exceeded"), Tok("field under strong load") >>, r),
           trendDesc, Tok("bright aurora possible at mid latitudes") >>
    ELSE IF lastKp >= 5 THEN
        << Tok("STATUS: moderate storm G1-G2"),
           pick(<< Tok("threshold exceeded"), Tok("magnetosphere actively resisting") >>, r),
           trendDesc, Tok("nominal regime of planetary protection") >>
    ELSE IF lastKp >= 4 THEN
        << Tok("STATUS: excited magnetosphere K4"),
           pick(<< Tok("approaching storm threshold"), Tok("raised field fluctuations") >>, r),
           trendDesc, Tok("G1 threshold not crossed") >>
    ELSE IF lastKp >= 3 THEN
        << Tok("STATUS: unsettled field"),
           pick(<< Tok("minor disturbances"), Tok("normal with slight instability") >>, r),
           trendDesc, Tok("conditions favourable") >>
    ELSE
        << Tok("STATUS:"),
           pick(<< Tok("geomagnetic calm"), Tok("quiet conditions"), Tok("magnetosphere at rest") >>, r),
           Tok("field stable, ideal conditions") >>

windTrendOf(avgWind, prevWind) ==
    LET diffNum == avgWind.num * prevWind.den - prevWind.num * avgWind.den
        diffDen == avgWind.den * prevWind.den
    IN IF diffNum > 50 * diffDen THEN Tok("wind: rising sharply")
       ELSE IF diffNum < (0 - 50) * diffDen THEN Tok("wind: decreasing")
       ELSE Tok("wind: stable")

\* windData[windData.length-1]?.density.toFixed(1), on the windData the
\* enclosing render captured
densityTextOf(closureWind) ==
    IF Len(closureWind) = 0 THEN Tok("density undefined")
    ELSE Num("density", RoundDiv(closureWind[Len(closureWind)].density, 10))

\* the caveat given up to Kp 4 inclusive
dynTextOf_inclusiveKp(lastKp, avgWind, prevWind, avgProton, closureWind) ==
    LET windTrend == windTrendOf(avgWind, prevWind)
        speed == RoundDiv(avgWind.num, avgWind.den)
    IN IF GE(avgWind, 500) THEN
           LET sourceNote == IF LT(avgProton, 10) THEN Tok("source: coronal hole (CH HSS)")
                             ELSE Tok("source: coronal mass ejection (CME)")
           IN IF lastKp <= 4
              THEN << Tok("DYNAMICS:"), sourceNote, windTrend,
                      Num("Bz North blocks energy transfer despite speed", speed) >>
              ELSE << Tok("DYNAMICS:"), sourceNote, windTrend,
                      Num("plasma flow presses on the magnetosphere", speed) >>
       ELSE << Tok("DYNAMICS:"), Num("wind near background, speed", speed),
               densityTextOf(closureWind), windTrend >>

dynTextOf(lastKp, avgWind, prevWind, avgProton, closureWind) ==
    LET windTrend == windTrendOf(avgWind, prevWind)
        speed == RoundDiv(avgWind.num, avgWind.den)
    IN IF GE(avgWind, 500) THEN
           LET sourceNote == IF LT(avgProton, 10) THEN Tok("source: coronal hole (CH HSS)")
                             ELSE Tok("source: coronal mass ejection (CME)")
           IN IF lastKp < 4
              THEN << Tok("DYNAMICS:"), sourceNote, windTrend,
                      Num("Bz North blocks energy transfer despite speed", speed) >>
              ELSE << Tok("DYNAMICS:"), sourceNote, windTrend,
                      Num("plasma flow presses on the magnetosphere", speed) >>
       ELSE << Tok("DYNAMICS:"), Num("wind near background, speed", speed),
               densityTextOf(closureWind), windTrend >>

forecastTextOf(nextForecastKp, lastKp, r) ==
    IF nextForecastKp > lastKp THEN
        << Tok("FORECAST: NOAA model predicts"),
           pick(<< Tok("rise of geomagnetic activity"), Tok("growth of Kp index") >>, r),
           Tok("in the next 3-6 hours") >>
    ELSE IF nextForecastKp < lastKp /\ lastKp >= 4 THEN
        << Tok("FORECAST: expected"),
           pick(<< Tok("stabilization"), Tok("gradual decline"), Tok("fading of disturbances") >>, r),
           Tok("in the next hours") >>
    ELSE << Tok("FORECAST: no significant change expected") >>

\* protonData[protonData.length-1]?.flux.toFixed(0), on the captured protonData
protonTextOf(closureProton) ==
    IF Len(closureProton) = 0 THEN Tok("pfu undefined")
    ELSE Num("pfu", closureProton[Len(closureProton)].flux)

\* the proton test made before the class test
physTextOf_protonFirst(avgFlareClass, avgProton, closureProton) ==
    IF GE(avgProton, 10) THEN
        << Tok("PHYSICS: proton event (S-Scale)"), protonTextOf(closureProton) >>
    ELSE IF avgFlareClass.letter = "X" THEN << Tok("PHYSICS: strong X-ray burst (class X)") >>
    ELSE << Tok("PHYSICS: radiation at background") >>

physTextOf(avgFlareClass, avgProton, closureProton) ==
    IF avgFlareClass.letter = "X" THEN << Tok("PHYSICS: strong X-ray burst (class X)") >>
    ELSE IF GE(avgProton, 10) THEN
        << Tok("PHYSICS: proton event (S-Scale)"), protonTextOf(closureProton) >>
    ELSE << Tok("PHYSICS: radiation at background") >>

\* the separator written after every part, the last one included
RECURSIVE join_trailing(_, _)
join_trailing(parts, sep) ==
    IF parts = << >> THEN << >>
    ELSE parts[1] \o << sep >> \o join_trailing(Tail(parts), sep)

\* parts.join("\n\n")
RECURSIVE join(_, _)
join(parts, sep) ==
    IF parts = << >> THEN << >>
    ELSE IF Len(parts) = 1 THEN parts[1]
    ELSE parts[1] \o << sep >> \o join(Tail(parts), sep)

Separator == Tok("\n\n")

analyzeData(kp, wind, flares, protons, forecast, closureWind, closureProton, rnd) ==
    LET lastKp == lastKpOf(kp)
        prevKp == prevKpOf(kp)
        avgWind == avgWindOf(wind)
        prevWind == prevWindOf(wind)
        avgProton == avgProtonOf(protons)
        avgFlareClass == avgFlareClassOf(flares)
        nextForecastKp == nextForecastKpOf(forecast, kp)
        score == DangerScore(lastKp, avgWind, avgFlareClass)
        parts == << statusTextOf(lastKp, prevKp, rnd[1]),
                    dynTextOf(lastKp, avgWind, prevWind, avgProton, closureWind),
                    forecastTextOf(nextForecastKp, lastKp, rnd[2]),
                    physTextOf(avgFlareClass, avgProton, closureProton) >>
    IN [dangerIndex |-> DangerLabel(score), report |-> join(parts, Separator)]

(***************************************************************************)
(* loadData: the flare peak detector.                                      *)
(***************************************************************************)
\* the significance boundary taken strictly
isSignificantOf_strict(curr) == curr > 1000

isSignificantOf(curr) == curr >= 1000

\* the noise threshold taken inclusively
isPeakAt_inclusive(flares, i) ==
    /\ flares[i].flux > flares[i - 1].flux
    /\ flares[i].flux > flares[i + 1].flux
    /\ flares[i].flux >= 10

isPeakAt(flares, i) ==
    /\ flares[i].flux > flares[i - 1].flux
    /\ flares[i].flux > flares[i + 1].flux
    /\ flares[i].flux > 10

\* for (let i = 1; i < flares.length - 1; i++), i counted from 1 here
RECURSIVE scanPeaks(_, _, _)
scanPeaks(flares, i, peaks) ==
    IF i >= Len(flares) THEN peaks
    ELSE IF isPeakAt(flares, i)
         THEN scanPeaks(flares, i + 1,
                  Append(peaks, [time |-> flares[i].time, flux |-> flares[i].flux,
                                 isSignificant |-> isSignificantOf(flares[i].flux)]))
         ELSE scanPeaks(flares, i + 1, peaks)

\* new Date(time).getTime(), in milliseconds
getTime(time) == time * 60000

\* the comparator with its operands exchanged: oldest first
compareFlares_ascending(a, b) == getTime(a.time) - getTime(b.time)

\* the comparator of the sort: negative puts a first
compareFlares(a, b) == getTime(b.time) - getTime(a.time)

\* Array.prototype.sort is stable: an element goes after every element that
\* does not have to come after it
RECURSIVE insertSorted(_, _)
insertSorted(sorted, e) ==
    IF sorted = << >> THEN << e >>
    ELSE IF compareFlares(sorted[1], e) <= 0
         THEN << sorted[1] >> \o insertSorted(Tail(sorted), e)
         ELSE << e >> \o sorted

RECURSIVE sortPeaks(_)
sortPeaks(peaks) ==
    IF peaks = << >> THEN << >>
    ELSE insertSorted(sortPeaks(SubSeq(peaks, 1, Len(peaks) - 1)), peaks[Len(peaks)])

\* the scan run over every index, a missing neighbour counting as no flux
RECURSIVE scanPeaks_edges(_, _, _)
scanPeaks_edges(flares, i, peaks) ==
    IF i > Len(flares) THEN peaks
    ELSE LET prev == IF i > 1 THEN flares[i - 1].flux ELSE 0
             next == IF i < Len(flares) THEN flares[i + 1].flux ELSE 0
             curr == flares[i].flux
         IN IF curr > prev /\ curr > next /\ curr > 10
            THEN scanPeaks_edges(flares, i + 1,
                     Append(peaks, [time |-> flares[i].time, flux |-> curr,
                                    isSignificant |-> isSignificantOf(curr)]))
            ELSE scanPeaks_edges(flares, i + 1, peaks)

detectFlares_edges(flares) == sortPeaks(scanPeaks_edges(flares, 1, << >>))

detectFlares(flares) == sortPeaks(scanPeaks(flares, 2, << >>))

(***************************************************************************)
(* What the render derives from the state.                                 *)
(***************************************************************************)
currentWind == IF Len(windData) >= 1 THEN windData[Len(windData)].speed ELSE 0
currentProtonFlux == IF Len(protonData) >= 1 THEN protonData[Len(protonData)].flux ELSE 0

RECURSIVE filterSignificant(_)
filterSignificant(flares) ==
    IF flares = << >> THEN << >>
    ELSE IF flares[1].isSignificant
         THEN << flares[1] >> \o filterSignificant(Tail(flares))
         ELSE filterSignificant(Tail(flares))

significantFlaresList == filterSignificant(detectedFlares)

isHighWind == currentWind > 500
isProtonStorm == currentProtonFlux >= 10
isCoronalHoleSource == isHighWind /\ ~isProtonStorm
isCMESource == isHighWind /\ isProtonStorm

(***************************************************************************)
(* The snapshots fetchSolarData delivers, and the families of series the   *)
(* specifications draw them from.  A step series is j samples of one       *)
(* value followed by n - j samples of another.                             *)
(***************************************************************************)
Snapshot(kp, wind, flares, protons, forecast, isDemo) ==
    [kp |-> kp, wind |-> wind, flares |-> flares, protons |-> protons,
     forecast |-> forecast, isDemo |-> isDemo]

Step(n, j, old, new) == [i \in 1..n |-> IF i <= j THEN old ELSE new]

KpSample(k) == [kp |-> k]
WindSample(s) == [speed |-> s, density |-> 518]
ProtonSample(f) == [flux |-> f]
FlareSample(t, f) == [time |-> t, flux |-> f]

KpVals == {0, 3, 4, 5, 6, 7}
SpeedVals == {300, 500, 700}
ProtonVals == {2, 10, 50}
AvgFluxVals == {500, 49000, 50000, 200000}
PeakFluxVals == {5, 10, 11, 1000}

KpFamily ==
    {<< >>} \cup {Step(n, n - 1, KpSample(4), KpSample(b)) : n \in 1..MaxKp, b \in KpVals}

WindFamily ==
    {<< >>} \cup
    UNION {{Step(n, j, WindSample(o), WindSample(r)) : j \in 0..(n - 1), o \in SpeedVals, r \in SpeedVals}
           : n \in {1, MaxWind - 1, MaxWind}}

ProtonFamily ==
    {<< >>} \cup
    UNION {{Step(n, j, ProtonSample(o), ProtonSample(r)) : j \in 0..(n - 1), o \in ProtonVals, r \in ProtonVals}
           : n \in {1, 2, MaxProton}}

\* flare series for the averages: sample i is taken at minute i
AvgFlareFamily ==
    {<< >>} \cup
    UNION {{[i \in 1..n |-> FlareSample(i, IF i <= j THEN o ELSE r)] : j \in {0, 1}, o \in AvgFluxVals, r \in AvgFluxVals}
           : n \in {1, MaxFlareAvg - 1, MaxFlareAvg}}

\* flare series for the peak detector: every flux pattern; the times never
\* decrease, and sample i + 1 repeats the time of sample i for the i in ties
TimeLines(n) ==
    {[i \in 1..n |-> i - Cardinality({j \in ties : j < i})]
        : ties \in {T \in SUBSET (1..(n - 1)) : Cardinality(T) <= MaxTies}}

PeakFlares(n, f, t) == [i \in 1..n |-> FlareSample(t[i], f[i])]

AppSnapshots ==
    { Snapshot(<< KpSample(3), KpSample(7) >>, << [speed |-> 700, density |-> 518] >>,
               << FlareSample(1, 5), FlareSample(2, 400000), FlareSample(3, 5) >>,
               << ProtonSample(2) >>, << KpSample(7), KpSample(8) >>, FALSE),
      Snapshot(<< KpSample(4) >>, << [speed |-> 450, density |-> 274] >>, << >>,
               << ProtonSample(50) >>, << >>, TRUE),
      Snapshot(<< >>, << >>, << >>, << >>, << >>, TRUE) }

Draws == {<< r1, r2 >> : r1 \in 0..(RandRes - 1), r2 \in 0..(RandRes - 1)}

(***************************************************************************)
(* The App component.                                                      *)
(***************************************************************************)
InitialReport == << Tok("SYNCHRONIZING TELEMETRY...") >>
InitialDangerIndex == [score |-> 0, label |-> "LOADING", colorClass |-> "text-gray-500"]

\* the useState initial values
InitState ==
    /\ kpData = << >>
    /\ windData = << >>
    /\ flareData = << >>
    /\ forecastData = << >>
    /\ protonData = << >>
    /\ detectedFlares = << >>
    /\ loading = TRUE
    /\ fetchError = FALSE
    /\ report = InitialReport
    /\ dangerIndex = InitialDangerIndex

\* the AuroraMap component (src/components/AuroraMap.tsx) when it is not
\* under study: not mounted, no image requested, no timeout armed
NoMap == [mounted |-> FALSE, imageLoaded |-> FALSE, useFallback |-> FALSE,
          mapImageRef |-> "null", image |-> "none", timeout |-> "none",
          showLegend |-> FALSE, kp |-> 0, background |-> "none"]

\* one call of getAverage on its own: its arguments, whether it has returned
\* and what it returned; NoCall when the helper is only used by analyzeData
NoCall == [data |-> << >>, key |-> "speed", count |-> 6, returned |-> FALSE, value |-> Rat(0, 1)]

Init ==
    /\ InitState
    /\ hidden \in BOOLEAN
    /\ mounted = FALSE
    /\ pending = << >>
    /\ call = NoCall
    /\ auroraMap = NoMap

\* a fetch in flight: the snapshot it will deliver and the windData and
\* protonData its loadData closed over
Fetch(result, closureWind, closureProton) ==
    [result |-> result, closureWind |-> closureWind, closureProton |-> closureProton]

\* loadData without its document.hidden guard
loadData_ignoresHidden(closureWind, closureProton) ==
    /\ Len(pending) < MaxPending
    /\ loading' = TRUE
    /\ \E result \in AppSnapshots :
           pending' = Append(pending, Fetch(result, closureWind, closureProton))

\* loadData up to its await
loadData(closureWind, closureProton) ==
    IF hidden
    THEN UNCHANGED <<loading, pending>>
    ELSE /\ Len(pending) < MaxPending
         /\ loading' = TRUE
         /\ \E result \in AppSnapshots :
                pending' = Append(pending, Fetch(result, closureWind, closureProton))

\* useEffect(..., []): the first load, the interval and the listener; its
\* loadData is the first render's, closed over the empty initial state
Mount ==
    /\ ~mounted
    /\ mounted' = TRUE
    /\ loadData(<< >>, << >>)
    /\ UNCHANGED <<kpData, windData, flareData, forecastData, protonData,
                   detectedFlares, fetchError, report, dangerIndex, hidden, call, auroraMap>>

\* setInterval(loadData, 60000)
Tick ==
    /\ mounted
    /\ loadData(<< >>, << >>)
    /\ UNCHANGED <<kpData, windData, flareData, forecastData, protonData,
                   detectedFlares, fetchError, report, dangerIndex, hidden, mounted, call, auroraMap>>

\* the page is hidden or shown; handleVisibilityChange loads when it is shown
VisibilityChange ==
    /\ hidden' = ~hidden
    /\ IF mounted /\ hidden
       THEN /\ Len(pending) < MaxPending
            /\ loading' = TRUE
            /\ \E result \in AppSnapshots :
                   pending' = Append(pending, Fetch(result, << >>, << >>))
       ELSE UNCHANGED <<loading, pending>>
    /\ UNCHANGED <<kpData, windData, flareData, forecastData, protonData,
                   detectedFlares, fetchError, report, dangerIndex, mounted, call, auroraMap>>

\* onClick={() => !loading && loadData()}: the current render's loadData
Refresh ==
    /\ mounted
    /\ ~loading
    /\ loadData(windData, protonData)
    /\ UNCHANGED <<kpData, windData, flareData, forecastData, protonData,
                   detectedFlares, fetchError, report, dangerIndex, hidden, mounted, call, auroraMap>>

RemoveAt(seq, i) == SubSeq(seq, 1, i - 1) \o SubSeq(seq, i + 1, Len(seq))

\* the analysis and the peak scan left out for demo data
Resolve_demoNotAnalysed(i, rnd) ==
    /\ i \in 1..Len(pending)
    /\ LET result == pending[i].result
           analysis == analyzeData(result.kp, result.wind, result.flares, result.protons,
                                   result.forecast, pending[i].closureWind,
                                   pending[i].closureProton, rnd)
       IN /\ fetchError' = result.isDemo
          /\ kpData' = result.kp
          /\ windData' = result.wind
          /\ flareData' = result.flares
          /\ forecastData' = result.forecast
          /\ protonData' = result.protons
          /\ dangerIndex' = IF result.isDemo THEN dangerIndex ELSE analysis.dangerIndex
          /\ report' = IF result.isDemo THEN report ELSE analysis.report
          /\ detectedFlares' = IF result.isDemo THEN detectedFlares ELSE detectFlares(result.flares)
    /\ loading' = FALSE
    /\ pending' = RemoveAt(pending, i)
    /\ UNCHANGED <<hidden, mounted, call, auroraMap>>

\* the analysis and the peak scan run on the state, which still holds the
\* snapshot applied before, instead of on the result
Resolve_analysesState(i, rnd) ==
    /\ i \in 1..Len(pending)
    /\ LET result == pending[i].result
           analysis == analyzeData(kpData, windData, flareData, protonData,
                                   forecastData, pending[i].closureWind,
                                   pending[i].closureProton, rnd)
       IN /\ fetchError' = result.isDemo
          /\ kpData' = result.kp
          /\ windData' = result.wind
          /\ flareData' = result.flares
          /\ forecastData' = result.forecast
          /\ protonData' = result.protons
          /\ dangerIndex' = analysis.dangerIndex
          /\ report' = analysis.report
          /\ detectedFlares' = detectFlares(flareData)
    /\ loading' = FALSE
    /\ pending' = RemoveAt(pending, i)
    /\ UNCHANGED <<hidden, mounted, call, auroraMap>>

\* loadData after its await: fetch i has resolved
Resolve(i, rnd) ==
    /\ i \in 1..Len(pending)
    /\ LET result == pending[i].result
           analysis == analyzeData(result.kp, result.wind, result.flares, result.protons,
                                   result.forecast, pending[i].closureWind,
                                   pending[i].closureProton, rnd)
       IN /\ fetchError' = result.isDemo
          /\ kpData' = result.kp
          /\ windData' = result.wind
          /\ flareData' = result.flares
          /\ forecastData' = result.forecast
          /\ protonData' = result.protons
          /\ dangerIndex' = analysis.dangerIndex
          /\ report' = analysis.report
          /\ detectedFlares' = detectFlares(result.flares)
    /\ loading' = FALSE
    /\ pending' = RemoveAt(pending, i)
    /\ UNCHANGED <<hidden, mounted, call, auroraMap>>

FetchResolves == \E i \in 1..Len(pending) : \E rnd \in Draws : Resolve(i, rnd)

Next == Mount \/ Tick \/ VisibilityChange \/ Refresh \/ FetchResolves

Spec == Init /\ [][Next]_vars

(***************************************************************************)
(* The engine on one snapshot: the state right after the first loadData    *)
(* call of a visible page, with the fetch in flight, and its completion    *)
(* with the first phrasing of every pick.                                  *)
(***************************************************************************)
FirstLoad(result) ==
    /\ InitState
    /\ hidden = FALSE
    /\ mounted = TRUE
    /\ pending = << Fetch(result, << >>, << >>) >>
    /\ call = NoCall
    /\ auroraMap = NoMap

FirstResolves == \E i \in 1..Len(pending) : Resolve(i, << 0, 0 >>)

\* the scoring inputs: Kp, wind and flare series of every family
InitScore ==
    \E k \in KpFamily : \E w \in WindFamily : \E f \in AvgFlareFamily :
        FirstLoad(Snapshot(k, w, f, << ProtonSample(2) >>, << >>, FALSE))
SpecScore == InitScore /\ [][FirstResolves]_vars

\* the attribution inputs: wind and proton series of every family, below
\* and above Kp 4
InitSource ==
    \E k \in {3, 5} : \E w \in WindFamily : \E p \in ProtonFamily :
        FirstLoad(Snapshot(<< KpSample(k) >>, w, << >>, p, << >>, FALSE))
SpecSource == InitSource /\ [][FirstResolves]_vars

\* the peak detector's inputs: every flux pattern on every time line
InitPeaks ==
    \E n \in 0..MaxPeakLen : \E f \in [1..n -> PeakFluxVals] : \E t \in TimeLines(n) :
        FirstLoad(Snapshot(<< KpSample(3) >>, << WindSample(300) >>, PeakFlares(n, f, t),
                           << ProtonSample(2) >>, << >>, FALSE))
SpecPeaks == InitPeaks /\ [][FirstResolves]_vars

\* an analysis has been applied to the state
Analysed == dangerIndex.label # "LOADING"

(***************************************************************************)
(* Properties.  The helpers below restate what a property speaks of        *)
(* directly on the state, without the engine's own operators.              *)
(***************************************************************************)
\* the indices of the last `count` samples of a series
C_LastIdx(data, count) == {i \in 1..Len(data) : i > Len(data) - count}

RECURSIVE C_Sum(_, _, _)
C_Sum(data, key, S) ==
    IF S = {} THEN 0
    ELSE LET i == CHOOSE j \in S : TRUE
         IN data[i][key] + C_Sum(data, key, S \ {i})

\* the arithmetic mean over the last min(count, length) samples, 0 when empty
C_Mean(data, key, count) ==
    IF data = << >> THEN Rat(0, 1)
    ELSE Rat(C_Sum(data, key, C_LastIdx(data, count)), Cardinality(C_LastIdx(data, count)))

C_LastKp == IF kpData = << >> THEN 0 ELSE kpData[Len(kpData)].kp

C_KpPoints ==
    CASE C_LastKp >= 7 -> 4
      [] C_LastKp >= 5 /\ C_LastKp < 7 -> 3
      [] C_LastKp >= 4 /\ C_LastKp < 5 -> 2
      [] C_LastKp >= 3 /\ C_LastKp < 4 -> 1
      [] OTHER -> 0

C_WindPoints ==
    LET w == C_Mean(windData, "speed", 6)
    IN CASE w.num >= 700 * w.den -> 3
         [] w.num >= 500 * w.den /\ w.num < 700 * w.den -> 2
         [] w.num >= 400 * w.den /\ w.num < 500 * w.den -> 1
         [] OTHER -> 0

C_FlarePoints ==
    LET c == getFlareClass(C_Mean(flareData, "flux", 12))
    IN CASE c.letter = "X" -> 3
         [] c.letter = "M" /\ c.tenths >= 50 -> 2
         [] c.letter = "M" /\ c.tenths < 50 -> 1
         [] OTHER -> 0

\* C1: after every analysis the danger score is the sum of the Kp points of
\* the last Kp, the wind points of the mean speed of the last 6 wind samples
\* and the flare points of the class of the mean flux of the last 12 flare
\* samples.
C1_ScoreIsSumOfContributions ==
    Analysed => dangerIndex.score = C_KpPoints + C_WindPoints + C_FlarePoints

\* C1 witness: all three contributions at work, on series longer than their
\* windows whose oldest sample would change the tier if it were counted.
C1_Witness ==
    /\ Analysed
    /\ C_LastKp = 4
    /\ Len(windData) > 6 /\ windData[1].speed = 300 /\ windData[Len(windData)].speed = 700
    /\ Len(flareData) > 12 /\ flareData[1].flux = 200000
    /\ flareData[Len(flareData)].flux = 50000
    /\ dangerIndex.score = 7

\* C2: after every analysis the score lies in 0..10 and the label follows
\* the hard cutoffs: HIGH from 5, MODERATE from 3 to 4, BACKGROUND below 3.
C2_ScoreRangeAndLabel ==
    Analysed =>
        /\ dangerIndex.score \in 0..10
        /\ dangerIndex.score >= 5 => dangerIndex.label = "HIGH"
        /\ (dangerIndex.score >= 3 /\ dangerIndex.score < 5) => dangerIndex.label = "MODERATE"
        /\ dangerIndex.score < 3 => dangerIndex.label = "BACKGROUND"

\* C2 witness: a score of exactly 5, labelled HIGH.
C2_Witness == Analysed /\ dangerIndex.score = 5 /\ dangerIndex.label = "HIGH"

C_LetterRank(letter) ==
    CASE letter = "A" -> 0 [] letter = "B" -> 1 [] letter = "C" -> 2
      [] letter = "M" -> 3 [] letter = "X" -> 4

\* flare severity: the letter first, then the mantissa
C_Severity(class) == C_LetterRank(class.letter) * 1000 + class.tenths

C_KpProbe == 0..9
C_WindProbe == {0, 399, 400, 499, 500, 699, 700, 900}
C_ClassProbe ==
    {[letter |-> l, tenths |-> t] : l \in {"A", "B", "C", "M", "X"}, t \in {10, 49, 50, 99}}

\* C3: after every analysis, raising the last Kp, the mean wind speed or the
\* flare severity alone, the other two as they are, never lowers the score.
C3_ScoreMonotone ==
    Analysed =>
        LET k == lastKpOf(kpData)
            w == avgWindOf(windData)
            c == avgFlareClassOf(flareData)
        IN /\ \A k2 \in C_KpProbe :
                  k2 >= k => DangerScore(k2, w, c) >= dangerIndex.score
           /\ \A s2 \in C_WindProbe :
                  s2 * w.den >= w.num => DangerScore(k, Rat(s2, 1), c) >= dangerIndex.score
           /\ \A c2 \in C_ClassProbe :
                  C_Severity(c2) >= C_Severity(c) => DangerScore(k, w, c2) >= dangerIndex.score

\* C3 witness: every input in a middle tier, so that each can still raise
\* the score.
C3_Witness ==
    /\ Analysed
    /\ lastKpOf(kpData) = 4
    /\ GE(avgWindOf(windData), 500) /\ LT(avgWindOf(windData), 700)
    /\ avgFlareClassOf(flareData).letter = "M"
    /\ DangerScore(5, avgWindOf(windData), avgFlareClassOf(flareData)) > dangerIndex.score

\* the interior indices that are strict local maxima above the noise threshold
C_PeakIdx ==
    {i \in 1..Len(flareData) :
        /\ 1 < i /\ i < Len(flareData)
        /\ flareData[i].flux > flareData[i - 1].flux
        /\ flareData[i].flux > flareData[i + 1].flux
        /\ flareData[i].flux > 10}

C_Sample(x) == << x.time, x.flux >>

\* how many times each (time, flux) occurs among the detected peaks, and
\* among the samples at the indices of a set
C_DetectedBag ==
    [x \in {C_Sample(detectedFlares[i]) : i \in DOMAIN detectedFlares} |->
        Cardinality({i \in DOMAIN detectedFlares : C_Sample(detectedFlares[i]) = x})]

C_IndexBag(S) ==
    [x \in {C_Sample(flareData[i]) : i \in S} |->
        Cardinality({i \in S : C_Sample(flareData[i]) = x})]

\* C4: after every load the detected peaks are exactly the samples at the
\* interior indices that exceed both neighbours and 1e-8, each once; a series
\* shorter than 3 samples yields none.
C4_PeaksAreInteriorMaxima ==
    Analysed =>
        /\ C_DetectedBag = C_IndexBag(C_PeakIdx)
        /\ Len(flareData) < 3 => detectedFlares = << >>

\* C4 witness: a peak is detected while the largest sample, at the end of
\* the series, is not, and a local maximum of exactly 1e-8 is not either.
C4_Witness ==
    /\ Analysed
    /\ Len(flareData) = 5
    /\ flareData[1].flux = 5 /\ flareData[2].flux = 10 /\ flareData[3].flux = 5
    /\ flareData[4].flux = 11 /\ flareData[5].flux = 5
    /\ Len(detectedFlares) = 1

\* C5: every detected peak is significant iff its flux is at least 1e-6, and
\* the significant-only list is the detected peaks of such flux in their order.
C5_SignificantIffAtLeast1e6 ==
    Analysed =>
        /\ \A i \in DOMAIN detectedFlares :
               detectedFlares[i].isSignificant <=> detectedFlares[i].flux >= 1000
        /\ LET atLeast1e6(f) == f.flux >= 1000
           IN significantFlaresList = SelectSeq(detectedFlares, atLeast1e6)

\* C5 witness: two peaks, one of exactly 1e-6 and one below it.
C5_Witness ==
    /\ Analysed
    /\ Len(detectedFlares) = 2
    /\ Len(significantFlaresList) = 1
    /\ significantFlaresList[1].flux = 1000

C_BagOfSeq(seq) ==
    [x \in {seq[i] : i \in DOMAIN seq} |-> Cardinality({i \in DOMAIN seq : seq[i] = x})]

\* C6: the detected peaks are ordered by descending time and are a
\* permutation of the peaks the scan found.
C6_PeaksDescendingByTime ==
    Analysed =>
        /\ \A i \in 1..(Len(detectedFlares) - 1) :
               detectedFlares[i].time >= detectedFlares[i + 1].time
        /\ C_BagOfSeq(detectedFlares) = C_BagOfSeq(scanPeaks(flareData, 2, << >>))

\* C6 witness: two peaks of different times, the later one first.
C6_Witness ==
    /\ Analysed
    /\ Len(detectedFlares) = 2
    /\ detectedFlares[1].time > detectedFlares[2].time

C_StrictlyIncreasingTime ==
    \A i \in 1..(Len(flareData) - 1) : flareData[i].time < flareData[i + 1].time

C_NonDecreasingTime ==
    \A i \in 1..(Len(flareData) - 1) : flareData[i].time <= flareData[i + 1].time

C_NoPeakAtEdgeTime ==
    \A i \in DOMAIN detectedFlares :
        /\ detectedFlares[i].time # flareData[1].time
        /\ detectedFlares[i].time # flareData[Len(flareData)].time

\* C7 as stated: for a series ordered by non-decreasing time, no detected
\* peak has the time of the first or of the last sample.
C7_NoPeakAtEdgeTime_NonDecreasing ==
    (Analysed /\ C_NonDecreasingTime) => C_NoPeakAtEdgeTime

\* C7 as amended: for a series ordered by strictly increasing time, no
\* detected peak has the time of the first or of the last sample.
C7_NoPeakAtEdgeTime_Increasing ==
    (Analysed /\ C_StrictlyIncreasingTime) => C_NoPeakAtEdgeTime

\* C7 witness: strictly increasing times, a peak detected, and the first
\* sample above the threshold and above its only neighbour.
C7_Witness ==
    /\ Analysed
    /\ C_StrictlyIncreasingTime
    /\ Len(detectedFlares) >= 1
    /\ flareData[1].flux = 1000 /\ flareData[2].flux = 5

C_AvgWindIs(s) ==
    LET w == C_Mean(windData, "speed", 6) IN windData # << >> /\ w.num = s * w.den

C_LastProton == IF protonData = << >> THEN 0 ELSE protonData[Len(protonData)].flux

\* C8: the attribution is CME when the wind is high and a proton storm is
\* on, coronal hole when the wind is high and no proton storm is on, none
\* when the wind is not high, never both; and with a mean wind of 600,
\* proton 2 gives coronal hole and proton 50 gives CME, while a mean wind of
\* 300 with proton 50 gives none.
C8_AttributionTable ==
    Analysed =>
        /\ isCMESource <=> (isHighWind /\ isProtonStorm)
        /\ isCoronalHoleSource <=> (isHighWind /\ ~isProtonStorm)
        /\ ~isHighWind => (~isCMESource /\ ~isCoronalHoleSource)
        /\ ~(isCMESource /\ isCoronalHoleSource)
        /\ (C_AvgWindIs(600) /\ C_LastProton = 2) => (isCoronalHoleSource /\ ~isCMESource)
        /\ (C_AvgWindIs(600) /\ C_LastProton = 50) => (isCMESource /\ ~isCoronalHoleSource)
        /\ (C_AvgWindIs(300) /\ C_LastProton = 50) => (~isCMESource /\ ~isCoronalHoleSource)

\* C9: isHighWind holds iff the mean speed of the last 6 wind samples
\* exceeds 500, and isProtonStorm iff the last proton flux is at least 10.
C9_AttributionWindows ==
    Analysed =>
        /\ isHighWind <=>
               LET w == C_Mean(windData, "speed", 6) IN w.num > 500 * w.den
        /\ isProtonStorm <=> C_LastProton >= 10

C_ReportNames(phrase) == \E i \in DOMAIN report : report[i].t = phrase

\* C10: the Dynamics section names the coronal-hole stream iff the
\* coronal-hole flag is set, names a CME iff the CME flag is set, and names
\* no source iff neither flag is set.
C10_ReportAgreesWithFlags ==
    Analysed =>
        /\ C_ReportNames("source: coronal hole (CH HSS)") <=> isCoronalHoleSource
        /\ C_ReportNames("source: coronal mass ejection (CME)") <=> isCMESource

(***************************************************************************)
(* The Kp trend and the Status section: Kp series whose last two samples   *)
(* take every pair of values, completed with any phrasing.                 *)
(***************************************************************************)
TrendKpFamily ==
    {<< >>} \cup {<< KpSample(b) >> : b \in KpVals} \cup
    UNION {{[i \in 1..n |-> KpSample(IF i = n THEN b ELSE IF i = n - 1 THEN a ELSE 4)]
               : a \in KpVals, b \in KpVals}
           : n \in 2..MaxTrendKp}

InitKpTrend ==
    \E k \in TrendKpFamily :
        FirstLoad(Snapshot(k, << WindSample(300) >>, << >>, << ProtonSample(2) >>, << >>, FALSE))

SpecKpTrend == InitKpTrend /\ [][FetchResolves]_vars

C_PrevKp == kpData[Len(kpData) - 1].kp

C_HasTrendPhrase ==
    \/ C_ReportNames("trend: rising")
    \/ C_ReportNames("trend: falling")
    \/ C_ReportNames("trend: stable")

\* C11: for a Kp series of at least two samples, the trend phrase of the
\* report is the rising one iff the last Kp exceeds the one before it, the
\* falling one iff it is smaller, and the stable one iff the two are equal.
C11_KpTrendByLastTwo ==
    (Analysed /\ Len(kpData) >= 2 /\ C_HasTrendPhrase) =>
        /\ C_ReportNames("trend: rising") <=> C_LastKp > C_PrevKp
        /\ C_ReportNames("trend: falling") <=> C_LastKp < C_PrevKp
        /\ C_ReportNames("trend: stable") <=> C_LastKp = C_PrevKp

\* the sections of a report: the runs of tokens between blank lines
RECURSIVE C_Split(_, _)
C_Split(text, section) ==
    IF text = << >> THEN << section >>
    ELSE IF text[1].t = "\n\n" THEN << section >> \o C_Split(Tail(text), << >>)
    ELSE C_Split(Tail(text), Append(section, text[1]))

C_Sections == C_Split(report, << >>)

C_Names(section, phrase) == \E i \in DOMAIN section : section[i].t = phrase
C_NamesOneOf(section, phrases) == \E i \in DOMAIN section : section[i].t \in phrases

C_TrendPhrases == {"trend: rising", "trend: falling", "trend: stable"}

\* the geomagnetic state of each Kp tier, as the Status section words it
C_StormState ==
    CASE C_LastKp >= 7 -> {"STATUS: strong storm G3"}
      [] C_LastKp >= 5 /\ C_LastKp < 7 -> {"STATUS: moderate storm G1-G2"}
      [] C_LastKp >= 4 /\ C_LastKp < 5 -> {"STATUS: excited magnetosphere K4"}
      [] C_LastKp >= 3 /\ C_LastKp < 4 -> {"STATUS: unsettled field"}
      [] OTHER -> {"geomagnetic calm", "quiet conditions", "magnetosphere at rest"}

\* C17: in every Kp tier the Status section holds the geomagnetic state of
\* the tier and a Kp trend phrase (rising, falling or stable).
C17_StatusHasStateAndTrend ==
    Analysed =>
        /\ C_NamesOneOf(C_Sections[1], C_StormState)
        /\ C_NamesOneOf(C_Sections[1], C_TrendPhrases)

(***************************************************************************)
(* The wind trend.                                                         *)
(***************************************************************************)
TrendSpeedVals == {0, 300, 350, 351, 700}

\* wind series of every length: the last six samples at speed c, the up to
\* six before them at speed p except the oldest of them at speed o, and
\* anything older at speed 900
TrendWindFamily ==
    UNION {{[i \in 1..n |-> WindSample(IF i > n - 6 THEN c
                                       ELSE IF i > n - 11 THEN p
                                       ELSE IF i > n - 12 THEN o
                                       ELSE 900)]
               : c \in TrendSpeedVals, p \in TrendSpeedVals, o \in {0, 350}}
           : n \in 0..MaxTrendWind}

InitWindTrend ==
    \E k \in {3, 5} : \E w \in TrendWindFamily :
        FirstLoad(Snapshot(<< KpSample(k) >>, w, << >>, << ProtonSample(2) >>, << >>, FALSE))
SpecWindTrend == InitWindTrend /\ [][FirstResolves]_vars

\* the samples of the window before the last six: up to six of them
C_PrevIdx == {i \in 1..Len(windData) : i <= Len(windData) - 6 /\ i > Len(windData) - 12}
C_CurrSum == C_Sum(windData, "speed", C_LastIdx(windData, 6))
C_PrevSum == C_Sum(windData, "speed", C_PrevIdx)

\* delta > d and delta < d, for delta = mean of the last six minus mean of
\* the window before them (more than six samples)
C_DeltaAbove(d) == C_CurrSum * Cardinality(C_PrevIdx) - C_PrevSum * 6 > d * 6 * Cardinality(C_PrevIdx)
C_DeltaBelow(d) == C_CurrSum * Cardinality(C_PrevIdx) - C_PrevSum * 6 < d * 6 * Cardinality(C_PrevIdx)

\* C12: with more than six wind samples the wind trend is RISING iff delta
\* exceeds 50, FALLING iff delta is below -50 and STABLE iff |delta| <= 50,
\* delta being the mean speed of the last six samples minus the mean speed
\* of the up to six samples right before them.
C12_WindTrendByDelta ==
    (Analysed /\ Len(windData) > 6) =>
        /\ C_ReportNames("wind: rising sharply") <=> C_DeltaAbove(50)
        /\ C_ReportNames("wind: decreasing") <=> C_DeltaBelow(0 - 50)
        /\ C_ReportNames("wind: stable") <=> (~C_DeltaAbove(50) /\ ~C_DeltaBelow(0 - 50))

\* the previous-window average the engine compares with is the exact value v
C_PrevWindIs(v) ==
    LET used == prevWindOf(windData) IN used.num * v.den = v.num * used.den

\* C13: the current-window average stands in for the previous-window average
\* exactly when no sample lies before the last six, and the wind trend is
\* then STABLE; with a sample before the last six the previous-window
\* average is the mean of that window.
C13_FallbackOnlyOnEmptySlice ==
    Analysed =>
        /\ Len(windData) <= 6 =>
              /\ C_PrevWindIs(C_Mean(windData, "speed", 6))
              /\ C_ReportNames("wind: stable")
        /\ Len(windData) > 6 => C_PrevWindIs(Rat(C_PrevSum, Cardinality(C_PrevIdx)))

(***************************************************************************)
(* getAverage called on its own.                                           *)
(***************************************************************************)
AvgSamples == {[speed |-> 0, density |-> 0], [speed |-> 300, density |-> 518],
               [speed |-> 501, density |-> 274]}

\* every series of up to MaxAvgLen samples, either key, every count from 1
\* to MaxCount (a count of 0 is never passed: the callers pass 6 and 12)
InitAverage ==
    /\ InitState
    /\ hidden = FALSE
    /\ mounted = FALSE
    /\ pending = << >>
    /\ auroraMap = NoMap
    /\ \E n \in 0..MaxAvgLen : \E data \in [1..n -> AvgSamples] :
       \E key \in {"speed", "density"} : \E count \in 1..MaxCount :
           call = [data |-> data, key |-> key, count |-> count,
                   returned |-> FALSE, value |-> Rat(0, 1)]

CallGetAverage ==
    /\ ~call.returned
    /\ call' = [call EXCEPT !.returned = TRUE,
                            !.value = getAverage(call.data, call.key, call.count)]
    /\ UNCHANGED << kpData, windData, flareData, forecastData, protonData, detectedFlares,
                    loading, fetchError, report, dangerIndex, hidden, mounted, pending,
                    auroraMap >>

SpecAverage == InitAverage /\ [][CallGetAverage]_vars

C_Min(a, b) == IF a <= b THEN a ELSE b

\* C14: getAverage returns the arithmetic mean of the key field over the
\* last min(count, length) samples, 0 for an empty series, and returns a
\* value also when count exceeds the length of the series.
C14_AverageOfLastMin ==
    call.returned =>
        LET idx == C_LastIdx(call.data, call.count)
            n == C_Min(call.count, Len(call.data))
        IN /\ Cardinality(idx) = n
           /\ call.data = << >> => call.value.num = 0 /\ call.value.den = 1
           /\ call.data # << >> =>
                 /\ call.value.den > 0
                 /\ call.value.num * n = C_Sum(call.data, call.key, idx) * call.value.den

\* C14 witness: the mean 801/2 of two samples asked for with count 4.
C14_Witness ==
    /\ call.returned
    /\ call.count = 4
    /\ Len(call.data) = 2
    /\ call.key = "speed"
    /\ call.value.num = 801
    /\ call.value.den = 2

(***************************************************************************)
(* The Forecast section.                                                   *)
(***************************************************************************)
ForecastVals == {0, 3, 4, 6}

\* every forecast of up to MaxForecast entries against every last Kp
InitForecast ==
    \E k \in {<< >>} \cup {<< KpSample(b) >> : b \in KpVals} :
    \E n \in 0..MaxForecast : \E fc \in [1..n -> {KpSample(v) : v \in ForecastVals}] :
        FirstLoad(Snapshot(k, << WindSample(300) >>, << >>, << ProtonSample(2) >>, fc, FALSE))
SpecForecast == InitForecast /\ [][FetchResolves]_vars

\* the second entry of the forecast, the last Kp when there is none
C_NextKp == IF Len(forecastData) > 1 THEN forecastData[2].kp ELSE C_LastKp

\* C15: the Forecast section is the 'rise' text iff next > lastKp, the
\* 'stabilize/decline' text iff next < lastKp and lastKp >= 4, and the 'no
\* significant change' text in every other case; a forecast of 0 or 1
\* entries gives 'no significant change'.
C15_ForecastByNextKp ==
    Analysed =>
        /\ C_ReportNames("FORECAST: NOAA model predicts") <=> C_NextKp > C_LastKp
        /\ C_ReportNames("FORECAST: expected") <=> (C_NextKp < C_LastKp /\ C_LastKp >= 4)
        /\ C_ReportNames("FORECAST: no significant change expected")
              <=> ~(C_NextKp > C_LastKp \/ (C_NextKp < C_LastKp /\ C_LastKp >= 4))
        /\ Len(forecastData) <= 1 => C_ReportNames("FORECAST: no significant change expected")

\* C15 witness: a decline from Kp 6 to 3 in the second of three entries,
\* read although the first entry is above the last Kp.
C15_Witness ==
    /\ Analysed
    /\ C_LastKp = 4
    /\ Len(forecastData) = 3
    /\ forecastData[1].kp = 6
    /\ forecastData[2].kp = 3
    /\ C_ReportNames("FORECAST: expected")
    /\ C_ReportNames("fading of disturbances")

\* C15 witness of the fallback: one forecast entry above the last Kp.
C_ForecastFallbackSeen ==
    /\ Analysed
    /\ Len(forecastData) = 1
    /\ forecastData[1].kp > C_LastKp
    /\ C_ReportNames("FORECAST: no significant change expected")

(***************************************************************************)
(* The shape of the report.                                                *)
(***************************************************************************)
\* snapshots with each series absent, quiet or disturbed, on every draw
InitSections ==
    \E k \in {<< >>} \cup {<< KpSample(b) >> : b \in {0, 3, 4, 5, 7}} :
    \E w \in {<< >>, << WindSample(300) >>, << WindSample(700) >>} :
    \E f \in {<< >>, << FlareSample(1, 500) >>, << FlareSample(1, 200000) >>} :
    \E p \in {<< >>, << ProtonSample(2) >>, << ProtonSample(50) >>} :
    \E fc \in {<< >>, << KpSample(4), KpSample(0) >>, << KpSample(4), KpSample(7) >>} :
        FirstLoad(Snapshot(k, w, f, p, fc, FALSE))
SpecSections == InitSections /\ [][FetchResolves]_vars

C_StatusHeads == {"STATUS: strong storm G3", "STATUS: moderate storm G1-G2",
                  "STATUS: excited magnetosphere K4", "STATUS: unsettled field", "STATUS:"}
C_ForecastHeads == {"FORECAST: NOAA model predicts", "FORECAST: expected",
                    "FORECAST: no significant change expected"}
C_PhysicsHeads == {"PHYSICS: strong X-ray burst (class X)", "PHYSICS: proton event (S-Scale)",
                   "PHYSICS: radiation at background"}
C_AllHeads == C_StatusHeads \cup {"DYNAMICS:"} \cup C_ForecastHeads \cup C_PhysicsHeads

\* a section opens with one of the heads and holds no other head
C_SectionOf(section, heads) ==
    /\ section # << >>
    /\ section[1].t \in heads
    /\ \A i \in 2..Len(section) : section[i].t \notin C_AllHeads

\* C16: the report is exactly four non-empty sections, Status, Dynamics,
\* Forecast and Physics in this order, with one blank line between two
\* sections, whatever the phrase selector returns.
C16_FourSectionsInOrder ==
    Analysed =>
        /\ Len(C_Sections) = 4
        /\ C_SectionOf(C_Sections[1], C_StatusHeads)
        /\ C_SectionOf(C_Sections[2], {"DYNAMICS:"})
        /\ C_SectionOf(C_Sections[3], C_ForecastHeads)
        /\ C_SectionOf(C_Sections[4], C_PhysicsHeads)

\* C16 witness: a storm report with a proton event, on the last draw of
\* the selector for both picks.
C16_Witness ==
    /\ Analysed
    /\ C_Names(C_Sections[1], "field under strong load")
    /\ C_Names(C_Sections[2], "source: coronal mass ejection (CME)")
    /\ C_Names(C_Sections[3], "fading of disturbances")
    /\ C_Names(C_Sections[4], "PHYSICS: proton event (S-Scale)")

(***************************************************************************)
(* The Dynamics section.                                                   *)
(***************************************************************************)
\* every wind family against every last Kp, without and with a proton storm
InitDynamics ==
    \E k \in {<< >>} \cup {<< KpSample(b) >> : b \in KpVals} :
    \E w \in WindFamily : \E p \in {<< ProtonSample(2) >>, << ProtonSample(10) >>} :
        FirstLoad(Snapshot(k, w, << >>, p, << >>, FALSE))
SpecDynamics == InitDynamics /\ [][FirstResolves]_vars

\* the mean speed of the last six wind samples is at the high-wind threshold
C_WindHigh ==
    /\ windData # << >>
    /\ C_Sum(windData, "speed", C_LastIdx(windData, 6)) >= 500 * Cardinality(C_LastIdx(windData, 6))

C_Caveat == C_Names(C_Sections[2], "Bz North blocks energy transfer despite speed")
C_Attribution ==
    C_NamesOneOf(C_Sections[2], {"source: coronal hole (CH HSS)", "source: coronal mass ejection (CME)"})

\* C18: the Dynamics section holds the northward-field caveat iff lastKp < 4
\* and the wind is high; with high wind and lastKp >= 4 it holds the source
\* attribution and no caveat; with wind that is not high it holds neither.
C18_CaveatIffQuietAndHighWind ==
    Analysed =>
        /\ C_Caveat <=> (C_LastKp < 4 /\ C_WindHigh)
        /\ (C_WindHigh /\ C_LastKp >= 4) => (C_Attribution /\ ~C_Caveat)
        /\ ~C_WindHigh => (~C_Caveat /\ ~C_Attribution)

\* C18 witness: Kp 4 under a wind averaging exactly 500 over seven samples
\* of which the oldest is slow: attribution, no caveat.
C18_Witness ==
    /\ Analysed
    /\ C_LastKp = 4
    /\ Len(windData) > 6
    /\ windData[1].speed = 300
    /\ C_AvgWindIs(500)
    /\ C_Attribution
    /\ ~C_Caveat

\* the caveat is seen at Kp 3 under high wind
C_CaveatSeen == Analysed /\ C_LastKp = 3 /\ C_WindHigh /\ C_Caveat

(***************************************************************************)
(* The Physics section.                                                    *)
(***************************************************************************)
\* every flare family against every proton family
InitPhysics ==
    \E f \in AvgFlareFamily : \E p \in ProtonFamily :
        FirstLoad(Snapshot(<< KpSample(3) >>, << WindSample(300) >>, f, p, << >>, FALSE))
SpecPhysics == InitPhysics /\ [][FirstResolves]_vars

\* the mean flux of the last twelve flare samples lies in the X decade
\* (1e-4 W/m2 and above)
C_ClassX ==
    /\ flareData # << >>
    /\ C_Sum(flareData, "flux", C_LastIdx(flareData, 12)) >= 100000 * Cardinality(C_LastIdx(flareData, 12))

\* the mean flux of the last six proton samples is at 10 pfu or above
C_ProtonHigh ==
    /\ protonData # << >>
    /\ C_Sum(protonData, "flux", C_LastIdx(protonData, 6)) >= 10 * Cardinality(C_LastIdx(protonData, 6))

\* C19: the Physics section is the X-ray narrative when the flare class is
\* X, also with a proton flux of 10 pfu or more; otherwise the proton-event
\* narrative when the proton flux is 10 pfu or more; otherwise the
\* background narrative.
C19_PhysicsPriority ==
    Analysed =>
        /\ C_ClassX => C_Names(C_Sections[4], "PHYSICS: strong X-ray burst (class X)")
        /\ (~C_ClassX /\ C_ProtonHigh) => C_Names(C_Sections[4], "PHYSICS: proton event (S-Scale)")
        /\ (~C_ClassX /\ ~C_ProtonHigh) => C_Names(C_Sections[4], "PHYSICS: radiation at background")
        /\ Len(C_Sections[4]) <= 2

\* C19 witness: class X together with a proton storm gives the X-ray
\* narrative.
C19_Witness ==
    /\ Analysed
    /\ C_ClassX
    /\ C_ProtonHigh
    /\ C_Sections[4] = << Tok("PHYSICS: strong X-ray burst (class X)") >>

\* the proton narrative is seen below class X, the mean flux exactly 10 pfu
C_ProtonNarrativeSeen ==
    /\ Analysed
    /\ ~C_ClassX
    /\ C_Sum(protonData, "flux", C_LastIdx(protonData, 6)) = 10 * Cardinality(C_LastIdx(protonData, 6))
    /\ Len(protonData) > 1
    /\ C_Names(C_Sections[4], "PHYSICS: proton event (S-Scale)")

(***************************************************************************)
(* Two loads of the same snapshot.                                         *)
(***************************************************************************)
\* a load has delivered the snapshot the state already held
C_SameSnapshot ==
    /\ pending' # pending
    /\ Len(pending') < Len(pending)
    /\ kpData' = kpData
    /\ windData' = windData
    /\ flareData' = flareData
    /\ protonData' = protonData
    /\ forecastData' = forecastData

\* the selector has returned the phrasings it returned for the load before:
\* the sections that hold a pick read the same
C_SamePicks ==
    /\ C_Sections'[1] = C_Sections[1]
    /\ C_Sections'[3] = C_Sections[3]

\* C20: a load of the snapshot the load before it delivered, with the same
\* phrases selected, leaves the report, the DangerIndex and the peak list as
\* they are, whatever was loaded earlier.
C20_SameSnapshotSameOutput ==
    [][(Analysed /\ C_SameSnapshot /\ C_SamePicks) =>
           (report' = report /\ dangerIndex' = dangerIndex /\ detectedFlares' = detectedFlares)]_vars

(***************************************************************************)
(* Short and empty snapshots.                                              *)
(***************************************************************************)
\* every combination of series lengths from 0 up, the flare series one
\* longer so that the peak scan has an interior sample
InitTotal ==
    \E nk \in 0..MaxTotalLen : \E nw \in 0..MaxTotalLen : \E nf \in 0..(MaxTotalLen + 1) :
    \E np \in 0..MaxTotalLen : \E nc \in 0..MaxTotalLen :
        FirstLoad(Snapshot(Const(nk, KpSample(5)), Const(nw, WindSample(700)),
                           [i \in 1..nf |-> FlareSample(i, IF i = 2 THEN 200000 ELSE 500)],
                           Const(np, ProtonSample(50)), Const(nc, KpSample(7)), FALSE))
SpecTotal == InitTotal /\ [][FirstResolves]_vars

C_AllEmpty ==
    /\ kpData = << >>
    /\ windData = << >>
    /\ flareData = << >>
    /\ protonData = << >>
    /\ forecastData = << >>

\* C21: on every combination of series lengths analysis and peak detection
\* complete; with all five series empty lastKp and the averages are 0, the
\* score is 0 with label BACKGROUND, the peak list is empty, and the report
\* still has its four sections.
C21_TotalOnShortInput ==
    pending = << >> =>
        /\ ~loading
        /\ Analysed
        /\ Len(C_Sections) = 4
        /\ \A i \in 1..4 : C_Sections[i] # << >>
        /\ Len(detectedFlares) <= Len(flareData)
        /\ C_AllEmpty =>
              /\ dangerIndex.score = 0
              /\ dangerIndex.label = "BACKGROUND"
              /\ detectedFlares = << >>
              /\ C_Sections[1][1] = Tok("STATUS:")
              /\ C_Sections[2][2] = Num("wind near background, speed", 0)
              /\ C_Sections[3] = << Tok("FORECAST: no significant change expected") >>
              /\ C_Sections[4] = << Tok("PHYSICS: radiation at background") >>

\* C21 witness: the load of the snapshot with all five series empty has
\* completed.
C21_Witness ==
    /\ pending = << >>
    /\ Analysed
    /\ C_AllEmpty
    /\ dangerIndex.score = 0

(***************************************************************************)
(* Live and demo data.                                                     *)
(***************************************************************************)
\* two effect-started loads in flight that deliver the same series, one as
\* live and one as demo data, in either order of start
InitDemo ==
    \E k \in {<< >>} \cup {<< KpSample(b) >> : b \in {0, 3, 4, 5, 7}} :
    \E w \in {<< >>, << WindSample(300) >>, << WindSample(700) >>} :
    \E f \in {<< >>, << FlareSample(1, 500) >>,
              << FlareSample(1, 5), FlareSample(2, 200000), FlareSample(3, 5) >>} :
    \E p \in {<< >>, << ProtonSample(2) >>, << ProtonSample(50) >>} :
    \E fc \in {<< >>, << KpSample(4), KpSample(7) >>} :
    \E d \in BOOLEAN :
        /\ InitState
        /\ hidden = FALSE
        /\ mounted = TRUE
        /\ pending = << Fetch(Snapshot(k, w, f, p, fc, d), << >>, << >>),
                        Fetch(Snapshot(k, w, f, p, fc, ~d), << >>, << >>) >>
        /\ call = NoCall
        /\ auroraMap = NoMap
SpecDemo == InitDemo /\ [][FirstResolves]_vars

\* C22: a load sets fetchError to the isDemo of the snapshot it applies and
\* completes the analysis; the load of a snapshot that differs from the one
\* applied before only in isDemo, the selector being the same, changes
\* fetchError and leaves the report, the DangerIndex and the peak list as
\* they are.
C22_DemoChangesOnlyFetchError ==
    [][Len(pending') < Len(pending) =>
           /\ \E i \in 1..Len(pending) :
                  /\ pending' = RemoveAt(pending, i)
                  /\ fetchError' = pending[i].result.isDemo
           /\ Analysed'
           /\ Analysed =>
                  /\ fetchError' # fetchError
                  /\ report' = report
                  /\ dangerIndex' = dangerIndex
                  /\ detectedFlares' = detectedFlares]_vars

\* C22 witness: both loads have completed, the demo one last, on a storm
\* snapshot with a significant peak.
C22_Witness ==
    /\ pending = << >>
    /\ Analysed
    /\ fetchError
    /\ C_LastKp = 7
    /\ Len(detectedFlares) = 1

(***************************************************************************)
(* The application: the exposed DangerIndex.                               *)
(***************************************************************************)
C_Labels == {"BACKGROUND", "MODERATE", "HIGH"}

\* C23: in every reachable state of the application the DangerIndex has an
\* integer score in 0..10 and a label among BACKGROUND, MODERATE and HIGH.
C23_ScoreAndLabelAlways ==
    /\ dangerIndex.score \in 0..10
    /\ dangerIndex.label \in C_Labels

\* C23 as amended: the score is an integer in 0..10 in every reachable
\* state; the label is the placeholder LOADING, with score 0 and nothing
\* loaded, until the first load completes, and one of BACKGROUND, MODERATE
\* and HIGH from then on.
C23_ScoreAlwaysLabelAfterFirstLoad ==
    /\ [](/\ dangerIndex.score \in 0..10
          /\ dangerIndex.label \in C_Labels \cup {"LOADING"}
          /\ dangerIndex.label = "LOADING" =>
                (dangerIndex.score = 0 /\ C_AllEmpty /\ report = InitialReport /\ ~fetchError))
    /\ [][/\ Len(pending') < Len(pending) => dangerIndex'.label \in C_Labels
          /\ dangerIndex.label \in C_Labels => dangerIndex'.label \in C_Labels]_vars

\* C23 witness: the top score 10 is exposed while two later loads are in
\* flight.
C23_Witness ==
    /\ dangerIndex.score = 10
    /\ dangerIndex.label = "HIGH"
    /\ Len(pending) = 2
    /\ loading

\* the MODERATE label is exposed too
C_ModerateSeen == dangerIndex.label = "MODERATE" /\ dangerIndex.score = 3

(***************************************************************************)
(* The end-to-end scenario.                                                *)
(***************************************************************************)
\* the snapshots of the scenario: Kp [3, 3, 5]; the last six wind samples
\* at 600 and 700, three of each in any order (mean 650), the six before
\* them all at 550 or at 500 and 600 in turn (mean 550), with or without
\* an older sample; one to three flare samples at 6.2e-5 W/m2 (class M6.2);
\* one or six proton samples at 3 pfu
InitScenario ==
    \E last \in {a \in [1..6 -> {600, 700}] : Cardinality({i \in 1..6 : a[i] = 700}) = 3} :
    \E turn \in BOOLEAN : \E older \in 0..1 : \E nf \in 1..3 : \E np \in {1, 6} :
        FirstLoad(Snapshot(
            << KpSample(3), KpSample(3), KpSample(5) >>,
            [i \in 1..(12 + older) |->
                WindSample(IF i > 6 + older THEN last[i - 6 - older]
                           ELSE IF i <= older THEN 900
                           ELSE IF turn THEN (IF i % 2 = 0 THEN 500 ELSE 600)
                           ELSE 550)],
            [i \in 1..nf |-> FlareSample(i, 62000)],
            Const(np, ProtonSample(3)), << >>, FALSE))
SpecScenario == InitScenario /\ [][FetchResolves]_vars

C_FourSections ==
    /\ Len(C_Sections) = 4
    /\ C_SectionOf(C_Sections[1], C_StatusHeads)
    /\ C_SectionOf(C_Sections[2], {"DYNAMICS:"})
    /\ C_SectionOf(C_Sections[3], C_ForecastHeads)
    /\ C_SectionOf(C_Sections[4], C_PhysicsHeads)

C_CoronalHoleAttributed ==
    /\ C_Names(C_Sections[2], "source: coronal hole (CH HSS)")
    /\ ~C_Names(C_Sections[2], "source: coronal mass ejection (CME)")
    /\ isCoronalHoleSource
    /\ ~isCMESource

\* C24: on the scenario snapshot the score is 2 (Kp) + 2 (wind) + 2 (flare)
\* = 6 with label HIGH, the source is attributed to a coronal hole, and the
\* report has four non-empty sections in the fixed order.
C24_ScenarioScoresSix ==
    Analysed =>
        /\ dangerIndex.score = 6
        /\ dangerIndex.label = "HIGH"
        /\ C_CoronalHoleAttributed
        /\ C_FourSections

\* C24 as amended: on the scenario snapshot the score is 3 (Kp 5) + 2 (wind)
\* + 2 (flare) = 7 with label HIGH, the source is attributed to a coronal
\* hole, and the report has four non-empty sections in the fixed order.
C24_ScenarioScoresSeven ==
    Analysed =>
        /\ C_KpPoints = 3
        /\ C_WindPoints = 2
        /\ C_FlarePoints = 2
        /\ dangerIndex.score = 7
        /\ dangerIndex.label = "HIGH"
        /\ C_CoronalHoleAttributed
        /\ C_FourSections

\* C24 witness: the scenario analysed, with the wind means 650 and 550 on
\* thirteen samples.
C24_Witness ==
    /\ Analysed
    /\ Len(windData) = 13
    /\ C_AvgWindIs(650)
    /\ C_PrevSum = 6 * 550
    /\ C_Names(C_Sections[2], "wind: rising sharply")
    /\ C_Names(C_Sections[1], "STATUS: moderate storm G1-G2")

(***************************************************************************)
(* The application: when the pipeline is invoked.                          *)
(***************************************************************************)
\* a step that starts exactly one load, and one that starts none
C_StartsOneLoad == Len(pending') = Len(pending) + 1 /\ loading'
C_StartsNoLoad == pending' = pending

\* a load that completes has run the analysis and the peak detection
C_LoadRunsPipeline ==
    Len(pending') < Len(pending) =>
        /\ Analysed'
        /\ ~loading'
        /\ Len(detectedFlares') = Cardinality({i \in 2..(Len(flareData') - 1) :
                                      /\ flareData'[i].flux > flareData'[i - 1].flux
                                      /\ flareData'[i].flux > flareData'[i + 1].flux
                                      /\ flareData'[i].flux > 10})

\* C25: while the component is mounted, every polling tick starts the
\* pipeline once, every visibility event that makes the page visible starts
\* it once, and every load that completes has run the analysis and the peak
\* detection.
C25_EveryTickLoads ==
    /\ [](mounted =>
             /\ ~ENABLED (Tick /\ ~C_StartsOneLoad)
             /\ ~ENABLED (VisibilityChange /\ ~hidden' /\ ~C_StartsOneLoad))
    /\ [][C_LoadRunsPipeline]_vars

\* C25 as amended: while the component is mounted, every polling tick that
\* fires while the page is visible starts the pipeline once and a tick that
\* fires while the page is hidden starts nothing; every visibility event
\* that makes the page visible starts the pipeline once; every load that
\* completes has run the analysis and the peak detection.
C25_EveryVisibleTickLoads ==
    /\ [](mounted =>
             /\ ~hidden => ~ENABLED (Tick /\ ~C_StartsOneLoad)
             /\ hidden => ~ENABLED (Tick /\ ~C_StartsNoLoad)
             /\ ~ENABLED (VisibilityChange /\ ~hidden' /\ ~C_StartsOneLoad))
    /\ [][C_LoadRunsPipeline]_vars

\* C25 witness: two loads in flight on a visible page before any load has
\* completed, the second started by a tick or by the page becoming visible.
C25_Witness ==
    /\ mounted
    /\ ~hidden
    /\ ~Analysed
    /\ Len(pending) = 2
    /\ \A i \in 1..2 : pending[i].closureWind = << >>

\* a tick can fire on a hidden page
C_HiddenTickSeen == mounted /\ hidden /\ ENABLED Tick

(***************************************************************************)
(* The application: overlapping loads.                                     *)
(***************************************************************************)
\* C26: at most one load is in flight at any time, whatever the
\* interleaving of the initial load, the ticks, the visibility events and
\* the refresh clicks.
C26_AtMostOneInFlight == Len(pending) <= 1

\* the displayed series are those of one delivered snapshot
C_OneSnapshotShown ==
    \E s \in AppSnapshots :
        /\ kpData = s.kp
        /\ windData = s.wind
        /\ flareData = s.flares
        /\ protonData = s.protons
        /\ forecastData = s.forecast
        /\ fetchError = s.isDemo

\* C27: after any sequence of loads the displayed series are those of one
\* snapshot, and the score and the peak list are those of this snapshot
\* alone: the score is the sum of its Kp, wind and flare points and the
\* peaks are its interior maxima.
C27_StateFromOneSnapshot ==
    Analysed =>
        /\ C_OneSnapshotShown
        /\ dangerIndex.score = C_KpPoints + C_WindPoints + C_FlarePoints
        /\ C_DetectedBag = C_IndexBag(C_PeakIdx)

\* C27 witness: of two overlapping loads the storm snapshot has been
\* applied and the other one, of a different snapshot, is still in flight.
C27_Witness ==
    /\ Analysed
    /\ ~loading
    /\ Len(pending) = 1
    /\ pending[1].result.kp # kpData
    /\ dangerIndex.score = 10
    /\ Len(detectedFlares) = 1

\* two effect-started loads in flight, the first started delivering a quiet
\* snapshot (Kp up to 4) and the second a storm snapshot (Kp from 5)
InitOverlap ==
    \E k1 \in {0, 3, 4} : \E k2 \in {5, 6, 7} :
    \E w1 \in {300, 450, 700} : \E w2 \in {300, 450, 700} :
    \E p1 \in {2, 50} : \E p2 \in {2, 50} :
        /\ InitState
        /\ hidden = FALSE
        /\ mounted = TRUE
        /\ pending = << Fetch(Snapshot(<< KpSample(k1) >>, << WindSample(w1) >>, << >>,
                                       << ProtonSample(p1) >>, << >>, FALSE), << >>, << >>),
                        Fetch(Snapshot(<< KpSample(k2) >>, << WindSample(w2) >>, << >>,
                                       << ProtonSample(p2) >>, << >>, FALSE), << >>, << >>) >>
        /\ call = NoCall
        /\ auroraMap = NoMap
SpecOverlap == InitOverlap /\ [][FirstResolves]_vars

\* C28: once two overlapping loads have both completed, the displayed
\* snapshot and its analysis are those of the load started later (here the
\* storm snapshot), in whichever order the two fetches resolved.
C28_LaterStartedWins ==
    pending = << >> =>
        /\ Analysed
        /\ C_LastKp >= 5
        /\ dangerIndex.score >= 3
        /\ C_NamesOneOf(C_Sections[1], {"STATUS: strong storm G3", "STATUS: moderate storm G1-G2"})

\* C29: loading is true whenever a fetch is unresolved: a state with loading
\* false has no fetch in flight.
C29_NotLoadingMeansIdle == ~loading => pending = << >>

(***************************************************************************)
(* The AuroraMap component (src/components/AuroraMap.tsx): the map image,  *)
(* its safety timeout, the loading overlay and the background the          *)
(* animation frame draws.  `image` is what the browser has done with the   *)
(* request, `timeout` the state of the 3-second timer.                     *)
(***************************************************************************)
appVars == <<kpData, windData, flareData, forecastData, protonData,
             detectedFlares, loading, fetchError, report, dangerIndex,
             hidden, mounted, pending, call>>

MapKpVals == {0, 3, 5, 7, 9}

\* the component after its first render and its mount effect: the image
\* requested, the timeout armed
InitMap ==
    /\ InitState
    /\ hidden = FALSE
    /\ mounted = FALSE
    /\ pending = << >>
    /\ call = NoCall
    /\ \E k \in MapKpVals :
           auroraMap = [mounted |-> TRUE, imageLoaded |-> FALSE, useFallback |-> FALSE,
                        mapImageRef |-> "null", image |-> "loading", timeout |-> "armed",
                        showLegend |-> FALSE, kp |-> k, background |-> "none"]

\* a state setter of an unmounted component changes nothing
setImageLoaded(m, v) == IF m.mounted THEN [m EXCEPT !.imageLoaded = v] ELSE m
setUseFallback(m, v) == IF m.mounted THEN [m EXCEPT !.useFallback = v] ELSE m

\* the flag set without the reference being stored
onLoad_noRef(m) == setImageLoaded(m, TRUE)

onLoad(m) == setImageLoaded([m EXCEPT !.mapImageRef = "img"], TRUE)

onError(m) == setImageLoaded(setUseFallback(m, TRUE), TRUE)

\* img.onload fires
ImageLoads ==
    /\ auroraMap.image = "loading"
    /\ auroraMap' = onLoad([auroraMap EXCEPT !.image = "loaded"])
    /\ UNCHANGED appVars

\* img.onerror fires
ImageFails ==
    /\ auroraMap.image = "loading"
    /\ auroraMap' = onError([auroraMap EXCEPT !.image = "failed"])
    /\ UNCHANGED appVars

\* the 3-second timeout fires; its imageLoaded is the first render's, false
MapTimeout ==
    /\ auroraMap.timeout = "armed"
    /\ LET fired == [auroraMap EXCEPT !.timeout = "fired"]
           imageLoaded == FALSE
       IN auroraMap' = IF ~imageLoaded /\ fired.mapImageRef = "null"
                       THEN onError(fired) ELSE fired
    /\ UNCHANGED appVars

\* the component unmounts: clearTimeout; the image handlers stay attached
MapUnmount ==
    /\ auroraMap.mounted
    /\ auroraMap' = [auroraMap EXCEPT !.mounted = FALSE,
                                      !.timeout = IF @ = "armed" THEN "cleared" ELSE @]
    /\ UNCHANGED appVars

\* the legend button
ToggleLegend ==
    /\ auroraMap.mounted
    /\ auroraMap' = [auroraMap EXCEPT !.showLegend = ~@]
    /\ UNCHANGED appVars

\* the parent renders the map with another kp
KpChanges ==
    /\ auroraMap.mounted
    /\ \E k \in MapKpVals \ {auroraMap.kp} : auroraMap' = [auroraMap EXCEPT !.kp = k]
    /\ UNCHANGED appVars

\* one animation frame: the map background
draw ==
    /\ auroraMap.mounted
    /\ auroraMap' = [auroraMap EXCEPT !.background =
                        IF ~auroraMap.useFallback /\ auroraMap.imageLoaded
                           /\ auroraMap.mapImageRef # "null"
                        THEN "image" ELSE "grid"]
    /\ UNCHANGED appVars

NextMap ==
    ImageLoads \/ ImageFails \/ MapTimeout \/ MapUnmount \/ ToggleLegend \/ KpChanges \/ draw

SpecMap == InitMap /\ [][NextMap]_vars

\* the timer of a mounted component fires
SpecMapFair == SpecMap /\ WF_vars(MapTimeout)

\* the overlay of the render
C_Overlay == auroraMap.mounted /\ ~auroraMap.imageLoaded /\ ~auroraMap.useFallback

\* C30: while the component stays mounted the loading overlay eventually
\* disappears and never reappears: imageLoaded, once set, stays set, and
\* whenever it is set with useFallback false the image reference is set.
C30_OverlayGoesAndStaysAway ==
    /\ <>(~C_Overlay)
    /\ [][~C_Overlay => ~C_Overlay']_vars
    /\ [][auroraMap.imageLoaded => auroraMap'.imageLoaded]_vars
    /\ []((auroraMap.imageLoaded /\ ~auroraMap.useFallback) => auroraMap.mapImageRef = "img")

\* C30 witness: the timeout has put the fallback on, the image has loaded
\* afterwards, and the component is still mounted with the overlay gone.
C30_Witness ==
    /\ auroraMap.mounted
    /\ auroraMap.timeout = "fired"
    /\ auroraMap.image = "loaded"
    /\ auroraMap.useFallback
    /\ auroraMap.imageLoaded
    /\ auroraMap.mapImageRef = "img"
    /\ auroraMap.background = "grid"

\* the image is drawn when it loaded in time
C_ImageDrawn ==
    auroraMap.mounted /\ ~auroraMap.useFallback /\ auroraMap.background = "image"

====
